---- MODULE Spec2Model ----
(***************************************************************************)
(* mobx-blocks: the Collection fetch/search state machine with its         *)
(* Sorting, Pagination and CursorPagination collaborators, and the         *)
(* CacheItem staleness wrapper.                                            *)
(*                                                                         *)
(* Optional fields of the TypeScript objects (sortBy?, totalCount?,        *)
(* opts.page?, res.totalCount?, config.initialFilters?) are modelled as    *)
(* optional record fields: Has(r, "f") is `"f" in r` / `r.f !== undefined`.*)
(* One step of the model is one synchronous run of JavaScript: a public    *)
(* method call up to its first await, the settling of one injected         *)
(* promise, or the firing of the debounce timer.                           *)
(***************************************************************************)
EXTENDS Integers, Sequences, FiniteSets, TLC

----------------------------------------------------------------------------
(* Bounds of the model *)

\* Nested fetch() frames that fit on the call stack before the engine
\* raises RangeError.
MaxStack == 2
\* fetchFn calls that may be in flight together.
MaxFetches == 4
\* searchFn calls that may be in flight together.
MaxSearches == 1
\* Highest page the callers navigate to.
MaxPage == 2
\* Longest run of consecutive mergeFetchParams calls that is followed.
MaxMerges == 2
\* Most search() calls that fall into one debounce window.
MaxBurst == 3
\* Last reading of the clock, in ticks.
MaxClock == 7

(* Program constants *)

\* Pagination.pageSize default
PAGE_SIZE_DEFAULT == 20

----------------------------------------------------------------------------
(* Value domains the inputs are drawn from *)

Has(r, f) == f \in DOMAIN r

EmptyRecord == [k \in {} |-> 0]

Undefined == "undefined"
Errors == {"e1", "e2"}
SearchErrors == {"s1"}

FilterKeys == {"tag", "page"}
FilterVals == {1, 2}
FilterMaps == UNION {[ks -> FilterVals] : ks \in SUBSET FilterKeys}

SortKeys == {1}

Null == 0
Cursors == {1}

Queries == {"q1"}

\* String(n): the decimal string of the number n, kept apart from n itself
StrVal(n) == 100 + n

\* Restrict(f, ks): the record f without the fields outside ks.
Restrict(f, ks) == [k \in (DOMAIN f) \cap ks |-> f[k]]

\* JavaScript object spread {...a, ...b}: b's fields win.
Spread(a, b) == [k \in (DOMAIN a) \cup (DOMAIN b) |->
                   IF k \in DOMAIN b THEN b[k] ELSE a[k]]

----------------------------------------------------------------------------
(* Sorting: sortBy?, sortAscending and a change callback *)

SortingNew == [sortAscending |-> FALSE]

\* setParams(sortBy?, sortAscending?): an absent argument leaves its field
\* as it is.  (The change callback it then fires is the nested fetch of
\* fetchSync below.)
SortingSetParams(s, opts) == Spread(s, Restrict(opts, {"sortBy", "sortAscending"}))

\* params: the defined fields only
SortingParams(s) == s

----------------------------------------------------------------------------
(* Pagination *)

PaginationNew(props) ==
    [page |-> 1,
     pageSize |-> IF Has(props, "pageSize") /\ props.pageSize # 0
                  THEN props.pageSize ELSE PAGE_SIZE_DEFAULT]

canGoToNext(p) ==
    IF ~Has(p, "totalCount") \/ p.totalCount = 0
    THEN TRUE
    ELSE p.page * p.pageSize < p.totalCount

PaginationParams(p) == [page |-> p.page, pageSize |-> p.pageSize]

\* init(page?, pageSize?): `if (page) ...; if (pageSize) ...`
PaginationInit(p, opts) ==
    LET p1 == IF Has(opts, "page") /\ opts.page # 0
              THEN [p EXCEPT !.page = opts.page] ELSE p
    IN IF Has(opts, "pageSize") /\ opts.pageSize # 0
       THEN [p1 EXCEPT !.pageSize = opts.pageSize] ELSE p1

\* setTotalCount(count)
PaginationSetTotalCount(p, count) == Spread(p, [totalCount |-> count])

PaginationGoToPrevUnfloored(p) == [p EXCEPT !.page = @ - 1]

PaginationGoToPrev(p) == IF p.page > 1 THEN [p EXCEPT !.page = @ - 1] ELSE p

\* goToNext's assignment; its onChange call is in the action goToNext
PaginationGoToNext(p) == IF canGoToNext(p) THEN [p EXCEPT !.page = @ + 1] ELSE p

----------------------------------------------------------------------------
(* CursorPagination: the cursor to request, and the next/prev tokens the   *)
(* server sent last                                                        *)

CursorPaginationNew(props) ==
    [next |-> Null, prev |-> Null,
     pageSize |-> IF Has(props, "pageSize") /\ props.pageSize # 0
                  THEN props.pageSize ELSE PAGE_SIZE_DEFAULT]

CursorPaginationInit(p, opts) ==
    LET p1 == IF Has(opts, "pageCursor") /\ opts.pageCursor # Null
              THEN Spread(p, [cursor |-> opts.pageCursor]) ELSE p
    IN IF Has(opts, "pageSize") /\ opts.pageSize # 0
       THEN [p1 EXCEPT !.pageSize = opts.pageSize] ELSE p1

CursorPaginationParams(p) == Restrict(p, {"cursor", "pageSize"})

\* setNext(res.nextPageCursor || null), setPrev(res.prevPageCursor || null),
\* each only for a field the response carries; Null stands for every falsy token
CursorPaginationSetFrom(p, res) ==
    LET p1 == IF Has(res, "nextPageCursor")
              THEN [p EXCEPT !.next = res.nextPageCursor] ELSE p
    IN IF Has(res, "prevPageCursor")
       THEN [p1 EXCEPT !.prev = res.prevPageCursor] ELSE p1

----------------------------------------------------------------------------
(* The filter map (an observable Map) and the methods that write it *)

\* ObservableMap.replace(obj): the map holds obj's entries and no others
MapReplace(m, obj) == [k \in DOMAIN obj |-> obj[k]]

\* ObservableMap.clear()
FiltersClear(m) == EmptyRecord

\* setFetchParams: clear(), then replace(filters)
FiltersSet(m, filters) == MapReplace(FiltersClear(m), filters)

FiltersMergeKeepsOld(m, filters) == Spread(filters, m)

\* mergeFetchParams: ObservableMap.merge(filters) sets each key of filters
FiltersMerge(m, filters) == Spread(m, filters)

\* clearFetchParam: ObservableMap.delete(key)
FiltersDelete(m, key) == Restrict(m, (DOMAIN m) \ {key})

InitialFilters(cfg) ==
    IF Has(cfg, "initialFilters") THEN cfg.initialFilters ELSE EmptyRecord

FiltersResetMerges(m, cfg) == Spread(m, InitialFilters(cfg))

\* resetFetchParams: replace(config.initialFilters || {})
FiltersReset(m, cfg) == MapReplace(m, InitialFilters(cfg))

\* qs.parse(query), for a query string given as its key=value pairs in
\* order (no key twice): every value comes back as a string
QsParse(query) ==
    [k \in {query[i][1] : i \in 1..Len(query)} |->
        StrVal(query[CHOOSE i \in 1..Len(query) : query[i][1] = k][2])]

\* `query ? qs.parse(query) : opts.filters`, as <<filters>> or <<>> for
\* undefined; the empty query string is falsy
ResolvedFilters(opts) ==
    IF Has(opts, "query") /\ opts.query # <<>> THEN <<QsParse(opts.query)>>
    ELSE IF Has(opts, "filters") THEN <<opts.filters>>
    ELSE <<>>

----------------------------------------------------------------------------
(* Collection *)

VARIABLES
    config,            \* the constructor's argument
    initialized, data, totalCount,
    fetching, fetchErr,
    searching, searchErr, searchQuery,
    sorting, filtersMap, pagination, cursorPagination,
    fetchReqs,         \* fetchFn calls not yet settled, in issue order
    searchReqs,        \* searchFn calls not yet settled, in issue order
    debounced,         \* the debounced handleSearch: <<>> or <<last opts>>
    last,              \* the last step, and what its caller observed of it
    initFetches,       \* fetches made by init() since construction / resetState
    mergeLog,          \* NoLog, or the filter map before a run of merges
                       \* and the arguments of the run
    burst,             \* NoLog, or [queries |-> the queries of the search()
                       \* calls that wait on the debounce timer]
    cacheItem,         \* a CacheItem, or Absent while none has been created
    now                \* the clock, in half minutes

model == <<initialized, data, totalCount, fetching, fetchErr,
           searching, searchErr, searchQuery, filtersMap>>
strategies == <<sorting, pagination, cursorPagination>>
cache == <<cacheItem, now>>
vars == <<config, model, strategies, fetchReqs, searchReqs, debounced, last,
          initFetches, mergeLog, burst, cache>>

\* `this.pagination` / `this.cursorPagination` left undefined
Absent == EmptyRecord

Configs ==
    { [pagination |-> "Pagination", pageSize |-> 1,
       initialFilters |-> [tag |-> 1], errorHandlerFn |-> TRUE, searchFn |-> TRUE],
      [pagination |-> "CursorPagination", pageSize |-> 1, searchFn |-> TRUE],
      [pagination |-> "none", initialFilters |-> [page |-> 2],
       errorHandlerFn |-> TRUE] }

\* what fetchFn may resolve with
Responses ==
    { [data |-> <<1>>, totalCount |-> 1, nextPageCursor |-> 1, prevPageCursor |-> Null],
      [data |-> <<2, 1>>] }

\* what searchFn may resolve with
SearchResults == { <<3>> }

NoLog == EmptyRecord

\* the Collection after `new Collection(config)`
Constructed ==
    /\ config \in Configs
    /\ initialized = FALSE
    /\ data = <<>>
    /\ totalCount = 0
    /\ fetching = FALSE
    /\ fetchErr = Undefined
    /\ searching = FALSE
    /\ searchErr = Undefined
    /\ searchQuery = ""
    /\ sorting = SortingNew
    /\ pagination = IF config.pagination = "Pagination"
                    THEN PaginationNew(Restrict(config, {"pageSize"})) ELSE Absent
    /\ cursorPagination = IF config.pagination = "CursorPagination"
                          THEN CursorPaginationNew(Restrict(config, {"pageSize"}))
                          ELSE Absent
    /\ filtersMap = IF Has(config, "initialFilters")
                    THEN MapReplace(EmptyRecord, config.initialFilters)
                    ELSE EmptyRecord
    /\ fetchReqs = <<>>
    /\ searchReqs = <<>>
    /\ debounced = <<>>
    /\ last = [step |-> "constructor"]
    /\ initFetches = 0

\* no CacheItem has been created
NoCacheItem == cacheItem = Absent /\ now = 0

Init == Constructed /\ mergeLog = NoLog /\ burst = NoLog /\ NoCacheItem

\* get queryParams, on the fields it reads:
\* {...this.filters, ...this.sorting.params, ...paginationParams}
queryParams(c) ==
    LET paginationParams ==
            IF c.pagination # Absent THEN PaginationParams(c.pagination)
            ELSE IF c.cursorPagination # Absent
                 THEN CursorPaginationParams(c.cursorPagination)
                 ELSE EmptyRecord
    IN Spread(Spread(c.filtersMap, SortingParams(c.sorting)), paginationParams)

\* the fields fetch() reads and writes before its first await
\* (fetchFn collects the arguments of the fetchFn calls made)
Sync == [sorting |-> sorting, pagination |-> pagination,
         cursorPagination |-> cursorPagination, filtersMap |-> filtersMap,
         fetching |-> fetching, fetchReqs |-> fetchReqs, fetchFn |-> <<>>]

QueryParams == queryParams(Sync)

\* the merge log after a write of the filter map that is no merge
Relog(m) == IF mergeLog = NoLog THEN NoLog ELSE [base |-> m, args |-> <<>>]

\* fetch(opts) up to its first await.  Sorting.setParams fires the change
\* callback the constructor wired to `() => this.fetch()`, so every fetch
\* enters a nested fetch({}) before it goes on; the frame that no longer
\* fits on the stack ends in a RangeError, which its async function turns
\* into a rejected promise nobody awaits, and the frames below it resume.
RECURSIVE fetchSync(_, _, _)
fetchSync(c, opts, depth) ==
    IF depth >= MaxStack THEN c
    ELSE
      LET c1 == [c EXCEPT !.sorting = SortingSetParams(@, opts)]
          c2 == fetchSync(c1, EmptyRecord, depth + 1)
          c3 == IF c2.pagination # Absent
                THEN [c2 EXCEPT !.pagination = PaginationInit(@, opts)]
                ELSE IF c2.cursorPagination # Absent
                     THEN [c2 EXCEPT !.cursorPagination = CursorPaginationInit(@, opts)]
                     ELSE c2
          filters == ResolvedFilters(opts)
          c4 == IF filters # <<>>
                THEN IF Has(opts, "clearFilters") /\ opts.clearFilters
                     THEN [c3 EXCEPT !.filtersMap = FiltersSet(@, filters[1])]
                     ELSE [c3 EXCEPT !.filtersMap = FiltersMerge(@, filters[1])]
                ELSE c3
          req == [shouldThrowError |-> Has(opts, "shouldThrowError")
                                       /\ opts.shouldThrowError,
                  overtaken |-> FALSE]
      IN [c4 EXCEPT !.fetching = TRUE,
                    !.fetchReqs = Append(@, req),
                    !.fetchFn = Append(@, queryParams(c4))]

\* room for one more call's requests
CanCall == Len(fetchReqs) + MaxStack <= MaxFetches

\* the state after `caller` has run fetch(opts) to its first await, from c
Fetched(caller, c, opts) ==
    LET d == fetchSync(c, opts, 0)
    IN /\ sorting' = d.sorting
       /\ pagination' = d.pagination
       /\ cursorPagination' = d.cursorPagination
       /\ filtersMap' = d.filtersMap
       /\ fetching' = d.fetching
       /\ fetchReqs' = d.fetchReqs
       /\ last' = [step |-> caller, fetchFn |-> d.fetchFn]
       /\ mergeLog' = Relog(d.filtersMap)
       /\ UNCHANGED <<cache, burst, config, initialized, data, totalCount, fetchErr, searching,
                      searchErr, searchQuery, searchReqs, debounced>>

\* a call that changes nothing
NoOp(caller) ==
    /\ last' = [step |-> caller, fetchFn |-> <<>>]
    /\ UNCHANGED <<cache, burst, config, model, strategies, fetchReqs, searchReqs, debounced,
                   initFetches, mergeLog>>

fetch(opts) ==
    /\ CanCall
    /\ Fetched("fetch", Sync, opts)
    /\ UNCHANGED initFetches

init(opts) ==
    /\ initialized \/ CanCall
    /\ IF ~initialized
       THEN Fetched("init", Sync, opts) /\ initFetches' = initFetches + 1
       ELSE NoOp("init")

\* Without(q, i): the sequence q without its i-th element
Without(q, i) == [j \in 1..(Len(q) - 1) |-> IF j < i THEN q[j] ELSE q[j + 1]]

\* the requests left when request i resolves; those issued before it have
\* now been overtaken by a later request's response
Overtaking(q, i) ==
    Without([j \in 1..Len(q) |-> IF j < i THEN [q[j] EXCEPT !.overtaken = TRUE]
                                 ELSE q[j]], i)

totalCountAfterReset(tc, res) == IF Has(res, "totalCount") THEN res.totalCount ELSE 0

\* if ("totalCount" in res) this.totalCount = res.totalCount
totalCountAfter(tc, res) == IF Has(res, "totalCount") THEN res.totalCount ELSE tc

fetchResolvedGuarded(i, res) ==
    /\ i \in 1..Len(fetchReqs)
    /\ data' = IF fetchReqs[i].overtaken THEN data ELSE res.data
    /\ totalCount' = IF fetchReqs[i].overtaken THEN totalCount
                     ELSE totalCountAfter(totalCount, res)
    /\ cursorPagination' = IF cursorPagination # Absent
                           THEN CursorPaginationSetFrom(cursorPagination, res)
                           ELSE cursorPagination
    /\ fetching' = FALSE
    /\ initialized' = TRUE
    /\ fetchReqs' = Overtaking(fetchReqs, i)
    /\ last' = [step |-> "fetchResolved", res |-> res, returned |-> res,
                handled |-> <<>>, overtaken |-> fetchReqs[i].overtaken]
    /\ UNCHANGED <<cache, burst, config, fetchErr, searching, searchErr, searchQuery, sorting,
                   filtersMap, pagination, searchReqs, debounced, initFetches,
                   mergeLog>>

\* fetchFn's promise for request i resolves with res
fetchResolved(i, res) ==
    /\ i \in 1..Len(fetchReqs)
    /\ data' = res.data
    /\ totalCount' = totalCountAfter(totalCount, res)
    /\ cursorPagination' = IF cursorPagination # Absent
                           THEN CursorPaginationSetFrom(cursorPagination, res)
                           ELSE cursorPagination
    /\ fetching' = FALSE
    /\ initialized' = TRUE
    /\ fetchReqs' = Overtaking(fetchReqs, i)
    /\ last' = [step |-> "fetchResolved", res |-> res, returned |-> res,
                handled |-> <<>>, overtaken |-> fetchReqs[i].overtaken]
    /\ UNCHANGED <<cache, burst, config, fetchErr, searching, searchErr, searchQuery, sorting,
                   filtersMap, pagination, searchReqs, debounced, initFetches,
                   mergeLog>>

\* errorHandlerFn's invocations for err
Handled(err) == IF Has(config, "errorHandlerFn") THEN <<err>> ELSE <<>>

\* what a failed call's caller gets: the error thrown, or `fallback` returned
Failed(step, err, shouldThrowError, fallback) ==
    LET seen == [step |-> step, err |-> err, shouldThrowError |-> shouldThrowError,
                 handled |-> Handled(err)]
    IN IF shouldThrowError THEN Spread(seen, [thrown |-> err])
       ELSE Spread(seen, fallback)

fetchRejectedAppliesFallback(i, err) ==
    /\ i \in 1..Len(fetchReqs)
    /\ fetchErr' = err
    /\ data' = <<>>
    /\ totalCount' = 0
    /\ fetching' = FALSE
    /\ initialized' = TRUE
    /\ fetchReqs' = Without(fetchReqs, i)
    /\ last' = Failed("fetchRejected", err, fetchReqs[i].shouldThrowError,
                      [returned |-> [data |-> <<>>, totalCount |-> 0]])
    /\ UNCHANGED <<cache, burst, config, searching, searchErr, searchQuery,
                   strategies, filtersMap, searchReqs, debounced, initFetches,
                   mergeLog>>

fetchRejectedStaysBusy(i, err) ==
    /\ i \in 1..Len(fetchReqs)
    /\ fetchErr' = err
    /\ fetching' = fetching
    /\ initialized' = TRUE
    /\ fetchReqs' = Without(fetchReqs, i)
    /\ last' = Failed("fetchRejected", err, fetchReqs[i].shouldThrowError,
                      [returned |-> [data |-> <<>>, totalCount |-> 0]])
    /\ UNCHANGED <<cache, burst, config, data, totalCount, searching, searchErr, searchQuery,
                   strategies, filtersMap, searchReqs, debounced, initFetches,
                   mergeLog>>

\* fetchFn's promise for request i rejects with err
fetchRejected(i, err) ==
    /\ i \in 1..Len(fetchReqs)
    /\ fetchErr' = err
    /\ fetching' = FALSE
    /\ initialized' = TRUE
    /\ fetchReqs' = Without(fetchReqs, i)
    /\ last' = Failed("fetchRejected", err, fetchReqs[i].shouldThrowError,
                      [returned |-> [data |-> <<>>, totalCount |-> 0]])
    /\ UNCHANGED <<cache, burst, config, data, totalCount, searching, searchErr, searchQuery,
                   strategies, filtersMap, searchReqs, debounced, initFetches,
                   mergeLog>>

----------------------------------------------------------------------------
(* Filter management *)

\* a call that writes the filter map only
WritesFilters(call, m) ==
    /\ filtersMap' = m
    /\ last' = call
    /\ UNCHANGED <<cache, burst, config, initialized, data, totalCount, fetching, fetchErr,
                   searching, searchErr, searchQuery, strategies, fetchReqs,
                   searchReqs, debounced, initFetches>>

setFetchParams(filters) ==
    /\ WritesFilters([step |-> "setFetchParams"], FiltersSet(filtersMap, filters))
    /\ mergeLog' = Relog(filtersMap')

mergeFetchParams(filters) ==
    /\ mergeLog # NoLog => Len(mergeLog.args) < MaxMerges
    /\ WritesFilters([step |-> "mergeFetchParams"], FiltersMerge(filtersMap, filters))
    /\ mergeLog' = IF mergeLog = NoLog THEN NoLog
                   ELSE [mergeLog EXCEPT !.args = Append(@, filters)]

clearFetchParams ==
    /\ WritesFilters([step |-> "clearFetchParams"], FiltersClear(filtersMap))
    /\ mergeLog' = Relog(filtersMap')

clearFetchParam(key) ==
    /\ WritesFilters([step |-> "clearFetchParam"], FiltersDelete(filtersMap, key))
    /\ mergeLog' = Relog(filtersMap')

resetFetchParams ==
    /\ WritesFilters([step |-> "resetFetchParams", before |-> filtersMap],
                     FiltersReset(filtersMap, config))
    /\ mergeLog' = Relog(filtersMap')

----------------------------------------------------------------------------
(* Search *)

SearchOpts == {EmptyRecord, [shouldThrowError |-> TRUE]}

searchUndebounced(query, opts) ==
    /\ Len(searchReqs) < MaxSearches
    /\ burst # NoLog => Len(burst.queries) < MaxBurst
    /\ searchQuery' = query
    /\ searching' = TRUE
    /\ searchReqs' = Append(searchReqs,
           [shouldThrowError |-> Has(opts, "shouldThrowError")
                                 /\ opts.shouldThrowError])
    /\ last' = [step |-> "search", query |-> query, searchFn |-> <<query>>]
    /\ burst' = burst
    /\ UNCHANGED <<cache, config, initialized, data, totalCount, fetching, fetchErr,
                   searchErr, filtersMap, strategies, fetchReqs, debounced,
                   initFetches, mergeLog>>

\* search(query, opts): store the query and (re)start the debounce timer;
\* the debounced handler will run with the last call's arguments
search(query, opts) ==
    /\ debounced # <<>> \/ Len(searchReqs) < MaxSearches
    /\ burst # NoLog => Len(burst.queries) < MaxBurst
    /\ searchQuery' = query
    /\ debounced' = <<opts>>
    /\ last' = [step |-> "search", query |-> query, searchFn |-> <<>>]
    /\ burst' = IF burst = NoLog THEN NoLog
                 ELSE [queries |-> Append(burst.queries, query)]
    /\ UNCHANGED <<cache, config, initialized, data, totalCount, fetching, fetchErr,
                   searching, searchErr, filtersMap, strategies, fetchReqs,
                   searchReqs, initFetches, mergeLog>>

\* the debounce timer fires: handleSearch(opts) up to its await
handleSearch ==
    /\ debounced # <<>>
    /\ debounced' = <<>>
    /\ IF ~Has(config, "searchFn")
       THEN /\ last' = [step |-> "handleSearch", searchFn |-> <<>>, burst |-> burst]
            /\ UNCHANGED <<searching, searchReqs>>
       ELSE /\ searching' = TRUE
            /\ searchReqs' = Append(searchReqs,
                   [shouldThrowError |-> Has(debounced[1], "shouldThrowError")
                                         /\ debounced[1].shouldThrowError])
            /\ last' = [step |-> "handleSearch", searchFn |-> <<searchQuery>>,
                        burst |-> burst]
    /\ burst' = IF burst = NoLog THEN NoLog ELSE [queries |-> <<>>]
    /\ UNCHANGED <<cache, config, initialized, data, totalCount, fetching, fetchErr,
                   searchErr, searchQuery, filtersMap, strategies, fetchReqs,
                   initFetches, mergeLog>>

\* searchFn's promise for request i resolves with items
searchResolved(i, items) ==
    /\ i \in 1..Len(searchReqs)
    /\ data' = items
    /\ searching' = FALSE
    /\ searchReqs' = Without(searchReqs, i)
    /\ last' = [step |-> "searchResolved", res |-> items, handled |-> <<>>]
    /\ UNCHANGED <<cache, burst, config, initialized, totalCount, fetching, fetchErr, searchErr,
                   searchQuery, filtersMap, strategies, fetchReqs, debounced,
                   initFetches, mergeLog>>

\* searchFn's promise for request i rejects with err
searchRejected(i, err) ==
    /\ i \in 1..Len(searchReqs)
    /\ searchErr' = err
    /\ searching' = FALSE
    /\ searchReqs' = Without(searchReqs, i)
    /\ last' = Failed("searchRejected", err, searchReqs[i].shouldThrowError,
                      EmptyRecord)
    /\ UNCHANGED <<cache, burst, config, initialized, data, totalCount, fetching, fetchErr,
                   searchQuery, filtersMap, strategies, fetchReqs, debounced,
                   initFetches, mergeLog>>

----------------------------------------------------------------------------
(* Reset, and navigation on the offset Pagination object *)

resetStateResetsPage ==
    /\ initialized' = FALSE
    /\ data' = <<>>
    /\ totalCount' = 0
    /\ filtersMap' = FiltersClear(filtersMap)
    /\ searchQuery' = ""
    /\ pagination' = IF pagination # Absent THEN [pagination EXCEPT !.page = 1]
                     ELSE pagination
    /\ fetching' = FALSE
    /\ fetchErr' = Undefined
    /\ searching' = FALSE
    /\ searchErr' = Undefined
    /\ last' = [step |-> "resetState"]
    /\ initFetches' = 0
    /\ mergeLog' = Relog(filtersMap')
    /\ UNCHANGED <<cache, burst, config, sorting, cursorPagination, fetchReqs, searchReqs,
                   debounced>>

resetState ==
    /\ initialized' = FALSE
    /\ data' = <<>>
    /\ totalCount' = 0
    /\ filtersMap' = FiltersClear(filtersMap)
    /\ searchQuery' = ""
    /\ fetching' = FALSE
    /\ fetchErr' = Undefined
    /\ searching' = FALSE
    /\ searchErr' = Undefined
    /\ last' = [step |-> "resetState"]
    /\ initFetches' = 0
    /\ mergeLog' = Relog(filtersMap')
    /\ UNCHANGED <<cache, burst, config, strategies, fetchReqs, searchReqs, debounced>>

\* pagination.goToNext(): onChange is `() => this.fetch()`
goToNext ==
    /\ pagination # Absent
    /\ pagination.page < MaxPage
    /\ CanCall
    /\ IF canGoToNext(pagination)
       THEN Fetched("goToNext", [Sync EXCEPT !.pagination = PaginationGoToNext(@)],
                    EmptyRecord)
            /\ UNCHANGED initFetches
       ELSE NoOp("goToNext")

\* pagination.goToPrev(): no callback
goToPrev ==
    /\ pagination # Absent
    /\ pagination' = PaginationGoToPrev(pagination)
    /\ last' = [step |-> "goToPrev", from |-> pagination.page, fetchFn |-> <<>>]
    /\ UNCHANGED <<cache, burst, config, model, sorting, cursorPagination, fetchReqs, searchReqs,
                   debounced, initFetches, mergeLog>>

\* pagination.setTotalCount(count), called on the Collection's pagination
\* object by its owner (the Collection itself never calls it)
setTotalCount(count) ==
    /\ pagination # Absent
    /\ pagination' = PaginationSetTotalCount(pagination, count)
    /\ last' = [step |-> "setTotalCount", fetchFn |-> <<>>]
    /\ UNCHANGED <<cache, burst, config, model, sorting, cursorPagination, fetchReqs,
                   searchReqs, debounced, initFetches, mergeLog>>

\* pagination.init(page?, pageSize?), called directly: no callback
paginationInit(opts) ==
    /\ pagination # Absent
    /\ pagination' = PaginationInit(pagination, opts)
    /\ last' = [step |-> "paginationInit", fetchFn |-> <<>>]
    /\ UNCHANGED <<cache, burst, config, model, sorting, cursorPagination, fetchReqs,
                   searchReqs, debounced, initFetches, mergeLog>>

----------------------------------------------------------------------------
(* CacheItem: a payload with an id, its creation time and a ttl in minutes *)

\* the clock advances in ticks of half a minute
TicksPerMinute == 2

\* what uuid() may return
Uuids == {StrVal(7)}

CacheData == UNION {[ks -> {1, 2}] : ks \in SUBSET {"id", "v"}}
Ttls == {0, 1, 2}
UpdateOpts == {[merge |-> TRUE], [merge |-> FALSE], EmptyRecord}

\* new CacheItem(data, ttl) at time t, with `id` the generated token if the
\* payload has no id of its own
CacheItemNew(d, ttl, id, t) ==
    [id |-> IF Has(d, "id") /\ d.id # 0 THEN StrVal(d.id) ELSE id,
     cachedAt |-> t, data |-> d, ttl |-> ttl]

\* timeDeltaInMinutes(a, b), in ticks: the time from b to a
timeDeltaInMinutes(a, b) == a - b

\* isStale(now): timeDeltaInMinutes(now, this.cachedAt) > this.ttl
isStale(item, t) == timeDeltaInMinutes(t, item.cachedAt) > item.ttl * TicksPerMinute

CacheItemUpdateRefreshes(item, d, opts) ==
    [item EXCEPT !.data = IF Has(opts, "merge") /\ opts.merge
                          THEN Spread(item.data, d) ELSE d,
                 !.cachedAt = now]

\* update(data, opts = {merge: true}): lodash merge on flat payloads, or
\* replacement
CacheItemUpdate(item, d, opts) ==
    [item EXCEPT !.data = IF Has(opts, "merge") /\ opts.merge
                          THEN Spread(item.data, d) ELSE d]

\* what happens outside the Collection leaves it alone
CollectionUnchanged ==
    UNCHANGED <<config, model, strategies, fetchReqs, searchReqs, debounced,
                initFetches, mergeLog, burst>>

newCacheItem(d, ttl, id) ==
    /\ cacheItem = Absent
    /\ cacheItem' = CacheItemNew(d, ttl, id, now)
    /\ last' = [step |-> "newCacheItem"]
    /\ UNCHANGED now
    /\ CollectionUnchanged

\* update(data): opts takes its default
updateDefault(d) ==
    /\ cacheItem # Absent
    /\ cacheItem' = CacheItemUpdate(cacheItem, d, [merge |-> TRUE])
    /\ last' = [step |-> "update", stale |-> isStale(cacheItem, now)]
    /\ UNCHANGED now
    /\ CollectionUnchanged

update(d, opts) ==
    /\ cacheItem # Absent
    /\ cacheItem' = CacheItemUpdate(cacheItem, d, opts)
    /\ last' = [step |-> "update", stale |-> isStale(cacheItem, now)]
    /\ UNCHANGED now
    /\ CollectionUnchanged

\* time passes
tick ==
    /\ now < MaxClock
    /\ now' = now + 1
    /\ last' = [step |-> "tick"]
    /\ UNCHANGED cacheItem
    /\ CollectionUnchanged

----------------------------------------------------------------------------
(* Specifications.  One program, explored under different callers: each    *)
(* specification draws the arguments of the calls it follows from its own  *)
(* small sets.                                                             *)

\* fetch()/init() calls and the settling of their requests
Requests(O, R, E) ==
    \/ \E opts \in O : fetch(opts)
    \/ \E opts \in O : init(opts)
    \/ \E i \in 1..Len(fetchReqs), res \in R : fetchResolved(i, res)
    \/ \E i \in 1..Len(fetchReqs), err \in E : fetchRejected(i, err)
    \/ resetState

\* search() calls, the debounce timer and the settling of searchFn
Searches ==
    \/ \E query \in Queries, opts \in SearchOpts : search(query, opts)
    \/ handleSearch
    \/ \E i \in 1..Len(searchReqs), items \in SearchResults : searchResolved(i, items)
    \/ \E i \in 1..Len(searchReqs), err \in SearchErrors : searchRejected(i, err)

\* calls on collection.pagination
Navigation == goToNext \/ goToPrev

\* the filter methods
FilterCalls(F) ==
    \/ \E filters \in F : setFetchParams(filters)
    \/ \E filters \in F : mergeFetchParams(filters)
    \/ clearFetchParams
    \/ \E key \in FilterKeys : clearFetchParam(key)
    \/ resetFetchParams

\* fetch()/init() option objects
CallOpts ==
    { EmptyRecord,
      [sortBy |-> 1, page |-> 2, pageCursor |-> 1, filters |-> [tag |-> 2],
       shouldThrowError |-> TRUE] }

FilterOpts ==
    { EmptyRecord,
      [sortBy |-> 1, sortAscending |-> TRUE, page |-> 2, filters |-> [tag |-> 2]],
      [filters |-> [page |-> 1], clearFilters |-> TRUE, pageCursor |-> 1,
       pageSize |-> 2] }

\* The fetch lifecycle: overlapping fetch()/init() calls and navigation.
Next == Requests(CallOpts, Responses, Errors) \/ Navigation

Spec == Init /\ [][Next]_vars

\* Fetch and search side by side, on a Collection that has every
\* collaborator configured.
FullConfig == [pagination |-> "Pagination", pageSize |-> 1,
               initialFilters |-> [tag |-> 1], errorHandlerFn |-> TRUE,
               searchFn |-> TRUE]

InitFull == Init /\ config = FullConfig

NextSearch == Requests(CallOpts, Responses, {"e1"}) \/ Searches

SpecSearch == InitFull /\ [][NextSearch]_vars

\* The filter map under every filter method, fetch(opts) and resetState.
NextFilters ==
    \/ Requests(FilterOpts, {[data |-> <<1>>]}, {"e1"})
    \/ FilterCalls(FilterMaps)
    \/ Navigation

SpecFilters == Init /\ [][NextFilters]_vars

\* Runs of mergeFetchParams calls, each from a filter map set before it.
InitMerge ==
    /\ Constructed
    /\ mergeLog = [base |-> filtersMap, args |-> <<>>]
    /\ burst = NoLog
    /\ NoCacheItem

NextMerge ==
    \/ \E filters \in FilterMaps : setFetchParams(filters)
    \/ \E filters \in FilterMaps : mergeFetchParams(filters)

SpecMerge == InitMerge /\ [][NextMerge]_vars

\* The offset Pagination object of a Collection under every method it has,
\* with the fetches its forward navigation starts.
TotalCounts == {0, 1, 25}
PageInits == {[page |-> 2], [page |-> 2, pageSize |-> 10],
              [page |-> 3, pageSize |-> 10], [pageSize |-> 1]}

PaginationCalls ==
    \/ \E count \in TotalCounts : setTotalCount(count)
    \/ \E opts \in PageInits : paginationInit(opts)

NextPagination ==
    \/ Requests({EmptyRecord}, {[data |-> <<1>>, totalCount |-> 1]}, {"e1"})
    \/ Navigation
    \/ PaginationCalls

SpecPagination == InitFull /\ [][NextPagination]_vars

\* Bursts of search() calls: every call arrives before the debounce timer
\* of the one before it has fired.
BurstQueries == {"q1", "q2"}

InitDebounce ==
    /\ Constructed
    /\ config = FullConfig
    /\ mergeLog = NoLog
    /\ burst = [queries |-> <<>>]
    /\ NoCacheItem

NextDebounce ==
    \/ \E query \in BurstQueries, opts \in SearchOpts : search(query, opts)
    \/ handleSearch
    \/ \E i \in 1..Len(searchReqs), items \in SearchResults : searchResolved(i, items)
    \/ \E i \in 1..Len(searchReqs), err \in SearchErrors : searchRejected(i, err)

SpecDebounce == InitDebounce /\ [][NextDebounce]_vars

\* One CacheItem from its creation on, updated while the clock runs.
NextCache ==
    \/ \E d \in CacheData, ttl \in Ttls, id \in Uuids : newCacheItem(d, ttl, id)
    \/ \E d \in CacheData : updateDefault(d)
    \/ \E d \in CacheData, opts \in UpdateOpts : update(d, opts)
    \/ tick

SpecCache == InitFull /\ [][NextCache]_vars

\* fetch(opts) with and without clearFilters, with filters given as an
\* object, as a query string, as both or not at all.
ClearOpts ==
    { [clearFilters |-> TRUE, filters |-> [page |-> 1]],
      [clearFilters |-> TRUE, query |-> <<<<"tag", 2>>>>, filters |-> [page |-> 1]],
      [clearFilters |-> TRUE],
      [filters |-> [tag |-> 2]],
      [query |-> <<>>, filters |-> [page |-> 2]] }

NextClear ==
    \/ Requests(ClearOpts, {[data |-> <<1>>]}, {"e1"})
    \/ \E filters \in FilterMaps : setFetchParams(filters)

SpecClear == Init /\ [][NextClear]_vars

\* Fetch and search side by side with the fewest arguments that reach every
\* way a request ends (the nested fetch({}) swallows its error, the outer
\* call re-throws it); every fetchFn and searchFn call that was issued
\* settles.
LiveOpts == {[shouldThrowError |-> TRUE]}
LiveResponses == {[data |-> <<1>>]}
LiveErrors == {"e1"}

NextLive == Requests(LiveOpts, LiveResponses, LiveErrors) \/ Searches

SettleFetch ==
    \/ \E i \in 1..Len(fetchReqs), res \in LiveResponses : fetchResolved(i, res)
    \/ \E i \in 1..Len(fetchReqs), err \in LiveErrors : fetchRejected(i, err)

SettleSearch ==
    \/ \E i \in 1..Len(searchReqs), items \in SearchResults : searchResolved(i, items)
    \/ \E i \in 1..Len(searchReqs), err \in SearchErrors : searchRejected(i, err)

SpecLive ==
    InitFull /\ [][NextLive]_vars /\ WF_vars(SettleFetch) /\ WF_vars(SettleSearch)

----------------------------------------------------------------------------
(* Properties *)

\* C1: between construction (or a resetState) and the next resetState, the
\* init() calls together go on to fetch at most once, also when a second
\* init() arrives while the first one's request is still in flight.
C1_InitFetchesOnce == initFetches <= 1

\* C2: fetching is true exactly while a fetchFn call is in flight, and
\* searching exactly while a searchFn call is in flight.
C2_BusyIffInFlight ==
    /\ fetching <=> fetchReqs # <<>>
    /\ searching <=> searchReqs # <<>>

\* C3: when a fetch request resolves with response R and no other request
\* is in flight, items become R.data, totalCount becomes R.totalCount if R
\* carries one and otherwise keeps its value, fetching is false and
\* initialized is true.
C3_FetchSuccess ==
    [][(last'.step = "fetchResolved" /\ Len(fetchReqs) = 1 /\ searchReqs = <<>>)
       => /\ data' = last'.res.data
          /\ totalCount' = IF Has(last'.res, "totalCount")
                           THEN last'.res.totalCount ELSE totalCount
          /\ ~fetching'
          /\ initialized']_vars

\* a response without totalCount has just replaced other items and left a
\* total of 1 standing
C3_Witness ==
    /\ last.step = "fetchResolved"
    /\ fetchReqs = <<>>
    /\ ~Has(last.res, "totalCount")
    /\ data = <<2, 1>>
    /\ totalCount = 1

\* C4: when a fetch request fails with error e, fetchErr becomes e, the
\* configured errorHandlerFn is invoked once with e, items and totalCount
\* keep their values, fetching is false and initialized is true; the call
\* returns {data: [], totalCount: 0} unless it set shouldThrowError, and then
\* it throws e.
C4_FetchFailure ==
    [][(last'.step = "fetchRejected")
       => /\ fetchErr' = last'.err
          /\ last'.handled = IF Has(config, "errorHandlerFn")
                             THEN <<last'.err>> ELSE <<>>
          /\ data' = data
          /\ totalCount' = totalCount
          /\ ~fetching'
          /\ initialized'
          /\ IF last'.shouldThrowError
             THEN Has(last', "thrown") /\ last'.thrown = last'.err
                  /\ ~Has(last', "returned")
             ELSE Has(last', "returned")
                  /\ last'.returned = [data |-> <<>>, totalCount |-> 0]
                  /\ ~Has(last', "thrown")]_vars

\* a second failure has been re-thrown and handled, over items and a total
\* that an earlier response had set
C4_Witness ==
    /\ last.step = "fetchRejected"
    /\ Has(last, "thrown")
    /\ last.thrown = "e2"
    /\ last.handled = <<"e2">>
    /\ fetchErr = "e2"
    /\ data = <<1>>
    /\ totalCount = 1

\* C6: a response that arrives after the response of a request issued later
\* still replaces the items: the response that completes last wins.
C6_LastResponseWins ==
    [][(last'.step = "fetchResolved" /\ last'.overtaken)
       => data' = last'.res.data]_vars

\* both requests have settled and the items are those of the request that
\* was issued first and answered last
C6_Witness ==
    /\ last.step = "fetchResolved"
    /\ last.overtaken
    /\ fetchReqs = <<>>
    /\ data = last.res.data
    /\ data = <<2, 1>>

\* C5: provided every issued request settles, fetching (searching) never
\* stays true for ever, and it is false whenever no fetchFn (searchFn) call
\* is in flight, whether the requests succeeded, failed and were swallowed
\* or failed and were re-thrown.
C5_FlagsNeverStuck ==
    /\ fetching ~> ~fetching
    /\ searching ~> ~searching
    /\ [](fetchReqs = <<>> => ~fetching)
    /\ [](searchReqs = <<>> => ~searching)

\* the last fetch request failed and was re-thrown, and fetching is cleared
C5_Witness ==
    /\ last.step = "fetchRejected"
    /\ Has(last, "thrown")
    /\ fetchReqs = <<>>
    /\ ~fetching
    /\ searching

\* C7: resetState() leaves initialized false, no items, totalCount 0, an
\* empty filter map, an empty searchQuery, both busy flags false and both
\* errors undefined, and does not touch the pagination, cursor or sorting
\* objects.
C7_ResetState ==
    [][(last'.step = "resetState")
       => /\ initialized' = FALSE
          /\ data' = <<>>
          /\ totalCount' = 0
          /\ filtersMap' = EmptyRecord
          /\ searchQuery' = ""
          /\ fetching' = FALSE
          /\ searching' = FALSE
          /\ fetchErr' = Undefined
          /\ searchErr' = Undefined
          /\ pagination' = pagination
          /\ cursorPagination' = cursorPagination
          /\ sorting' = sorting]_vars

\* a reset made on page 2 with a sort key set, while a fetch and a search
\* request were in flight
C7_Witness ==
    /\ last.step = "resetState"
    /\ pagination.page = 2
    /\ Has(sorting, "sortBy")
    /\ fetchReqs # <<>>
    /\ searchReqs # <<>>

\* C8: a run of mergeFetchParams(f1), ..., mergeFetchParams(fn) calls on a
\* filter map M leaves the shallow merge of M, f1, ..., fn in call order:
\* each key holds the value of the last argument that mentions it, a key no
\* argument mentions keeps its value from M, and no key is removed.
C8_MergeIsShallowMerge ==
    LET M == mergeLog.base
        f == mergeLog.args
        mentions(k) == {i \in 1..Len(f) : Has(f[i], k)}
        lastMention(k) == CHOOSE i \in mentions(k) : \A j \in mentions(k) : j <= i
    IN /\ DOMAIN filtersMap = DOMAIN M \cup UNION {DOMAIN f[i] : i \in 1..Len(f)}
       /\ \A k \in DOMAIN filtersMap :
              filtersMap[k] = IF mentions(k) = {} THEN M[k]
                              ELSE f[lastMention(k)][k]

\* two merges that both mention "page", on a map that holds "tag"
C8_Witness ==
    /\ mergeLog.base = [tag |-> 1]
    /\ mergeLog.args = <<[page |-> 1], [page |-> 2]>>
    /\ filtersMap = [tag |-> 1, page |-> 2]

\* C9: whatever the filter map went through before, resetFetchParams()
\* leaves it equal to the initialFilters of the constructor's configuration
\* (empty when there are none), and a second call changes nothing.
C9_ResetFetchParams ==
    [][(last'.step = "resetFetchParams")
       => /\ filtersMap' = (IF Has(config, "initialFilters")
                            THEN config.initialFilters ELSE EmptyRecord)
          /\ FiltersReset(filtersMap', config) = filtersMap']_vars

\* a reset of a map that held other keys and values than the initial ones,
\* after a fetch
C9_Witness ==
    /\ last.step = "resetFetchParams"
    /\ last.before = [tag |-> 2, page |-> 1]
    /\ filtersMap = [tag |-> 1]
    /\ initialized

\* C10: queryParams is the union of the filters, the defined sort params
\* and the pagination params with no field dropped: every filter key
\* carries the filter map's value, every defined sort field its current
\* value, and the pagination params the pagination object's values, also
\* for a filter key named like a pagination or sort param.
C10_QueryParamsUnion ==
    LET sortParams == SortingParams(sorting)
        paginationParams ==
            IF pagination # Absent THEN PaginationParams(pagination)
            ELSE IF cursorPagination # Absent
                 THEN CursorPaginationParams(cursorPagination)
                 ELSE EmptyRecord
    IN /\ DOMAIN QueryParams = DOMAIN filtersMap \cup DOMAIN sortParams
                                   \cup DOMAIN paginationParams
       /\ \A k \in DOMAIN filtersMap : QueryParams[k] = filtersMap[k]
       /\ \A k \in DOMAIN sortParams : QueryParams[k] = sortParams[k]
       /\ \A k \in DOMAIN paginationParams : QueryParams[k] = paginationParams[k]

\* C11: items and totalCount always reflect the same response: either both
\* still have their construction/reset values, or both were set by one fetch
\* response; no state shows the items of a response (one without totalCount,
\* or a search result) next to the totalCount of another.
C11_ItemsAndTotalTogether ==
    \/ data = <<>> /\ totalCount = 0
    \/ \E res \in Responses :
          /\ Has(res, "totalCount")
          /\ data = res.data
          /\ totalCount = res.totalCount

\* C12: canGoToNext is true while setTotalCount has never been called, and
\* after setTotalCount(n), for every n >= 0 and n = 0 too, it is true
\* exactly when page * pageSize < n.
C12_CanGoToNext ==
    pagination # Absent =>
        (canGoToNext(pagination)
           <=> (Has(pagination, "totalCount")
                  => pagination.page * pagination.pageSize < pagination.totalCount))

\* C13: the page of a Pagination object never falls below 1, and goToPrev()
\* at page 1 leaves page, pageSize and totalCount as they are and calls no
\* change callback.
C13_PageAtLeastOne ==
    /\ [](pagination # Absent => pagination.page >= 1)
    /\ [][(last'.step = "goToPrev" /\ pagination.page = 1)
          => /\ pagination' = pagination
             /\ last'.fetchFn = <<>>
             /\ fetchReqs' = fetchReqs]_vars

\* goToPrev() was called at page 1 of a Pagination that knows a total and a
\* page size of its own
C13_Witness ==
    /\ last.step = "goToPrev"
    /\ last.from = 1
    /\ pagination = [page |-> 1, pageSize |-> 10, totalCount |-> 25]

\* C14: a burst of search(q1), ..., search(qk) calls, each made inside the
\* debounce window of the one before, invokes searchFn once, when the timer
\* fires after the last call, and with the last query qk; no search() call
\* invokes searchFn itself.
C14_DebouncedSearch ==
    /\ [][(last'.step = "search")
          => /\ searchReqs' = searchReqs
             /\ last'.searchFn = <<>>
             /\ debounced' # <<>>
             /\ burst'.queries = Append(burst.queries, last'.query)]_vars
    /\ [][(last'.step = "handleSearch")
          => /\ burst.queries # <<>>
             /\ last'.searchFn = <<burst.queries[Len(burst.queries)]>>
             /\ Len(searchReqs') = Len(searchReqs) + 1
             /\ debounced' = <<>>
             /\ burst'.queries = <<>>]_vars
    /\ [][(searchReqs' # searchReqs /\ Len(searchReqs') >= Len(searchReqs))
          => last'.step = "handleSearch"]_vars

\* the timer has fired after a burst of three calls with different queries
C14_Witness ==
    /\ last.step = "handleSearch"
    /\ last.burst.queries = <<"q1", "q2", "q1">>
    /\ last.searchFn = <<"q1">>
    /\ Len(searchReqs) = 1
    /\ burst.queries = <<>>

\* C15: update() calls, merging or replacing, leave cachedAt (and ttl) of a
\* CacheItem as they were at its creation; isStale(now) is true exactly when
\* more than ttl minutes have passed since cachedAt; so an item that is
\* stale stays stale, however often it is updated.
C15_StaleAnchoredToCreation ==
    /\ [][(cacheItem # Absent)
          => /\ cacheItem'.cachedAt = cacheItem.cachedAt
             /\ cacheItem'.ttl = cacheItem.ttl]_vars
    /\ [](cacheItem # Absent
          => (isStale(cacheItem, now)
                <=> now - cacheItem.cachedAt > cacheItem.ttl * TicksPerMinute))
    /\ [][(cacheItem # Absent /\ isStale(cacheItem, now))
          => isStale(cacheItem', now')]_vars

\* an item created at tick 1 with a ttl of one minute, already stale, has
\* just been updated by a replacement and is still stale
C15_Witness ==
    /\ last.step = "update"
    /\ last.stale
    /\ cacheItem.cachedAt = 1
    /\ cacheItem.ttl = 1
    /\ cacheItem.data = [v |-> 2]
    /\ now = 4
    /\ isStale(cacheItem, now)

\* C16: with offset pagination, once a fetch has succeeded with totalCount T
\* (the Collection's totalCount holds T >= 1), a goToNext() made while
\* page * pageSize >= T leaves the page alone and issues no fetch.
C16_ForwardGatedByTotal ==
    [][(/\ last'.step = "goToNext"
        /\ totalCount >= 1
        /\ pagination.page * pagination.pageSize >= totalCount)
       => /\ pagination' = pagination
          /\ last'.fetchFn = <<>>
          /\ fetchReqs' = fetchReqs]_vars

\* C17: every fetch() call, made directly, through init() or through the
\* pagination's change callback, invokes fetchFn exactly once: applying the
\* sort params starts no further fetch().
C17_FetchInvokesFetchFnOnce ==
    /\ last.step = "fetch" => Len(last.fetchFn) = 1
    /\ last.step \in {"init", "goToNext"} => Len(last.fetchFn) <= 1

\* C18: a fetch(opts) call with clearFilters leaves, and sends, exactly the
\* filters resolved from the call (the parsed query string if given, else
\* opts.filters): no key the filter map held before and the resolved
\* filters lack reaches fetchFn as a filter.  Without clearFilters the
\* resolved filters are merged into the map and no key is removed.
C18_ClearFiltersReplaces ==
    [][\A opts \in ClearOpts :
         fetch(opts) =>
           LET resolved == IF ResolvedFilters(opts) = <<>> THEN EmptyRecord
                           ELSE ResolvedFilters(opts)[1]
               ownParams ==
                   DOMAIN SortingParams(sorting')
                     \cup (IF pagination' # Absent THEN DOMAIN PaginationParams(pagination')
                           ELSE IF cursorPagination' # Absent
                                THEN DOMAIN CursorPaginationParams(cursorPagination')
                                ELSE {})
               dropped == ((DOMAIN filtersMap) \ (DOMAIN resolved)) \ ownParams
           IN IF Has(opts, "clearFilters") /\ opts.clearFilters
              THEN /\ filtersMap' = resolved
                   /\ \A i \in 1..Len(last'.fetchFn) :
                          (DOMAIN last'.fetchFn[i]) \cap dropped = {}
              ELSE filtersMap' = Spread(filtersMap, resolved)]_vars

\* C19: every page change made by goToPrev() or goToNext() on a Collection's
\* offset pagination fires the change callback: the step issues a fetch,
\* and what it asks fetchFn for is the new page.
C19_NavigationFetchesNewPage ==
    [][(/\ last'.step \in {"goToPrev", "goToNext"}
        /\ pagination'.page # pagination.page)
       => /\ last'.fetchFn # <<>>
          /\ \A i \in 1..Len(last'.fetchFn) :
                 last'.fetchFn[i].page = pagination'.page]_vars

\* C20: a reset is not undone by earlier requests: when a request issued
\* before resetState() settles after it, with no call made in between, the
\* items, totalCount, initialized and fetchErr keep their reset values.
C20_ResetPersists ==
    [][(/\ last.step = "resetState"
        /\ last'.step \in {"fetchResolved", "fetchRejected",
                           "searchResolved", "searchRejected"})
       => /\ data' = <<>>
          /\ totalCount' = 0
          /\ initialized' = FALSE
          /\ fetchErr' = Undefined]_vars

====
